---- MODULE Spec2Model ----
(***************************************************************************)
(* Context-aware file I/O of package fs: the interrupt scope (interrupt,   *)
(* its watcher goroutine and its cleanup), thread-directed delivery of the *)
(* interrupt signal, and the retry loops of fio.Read and fio.Write.        *)
(***************************************************************************)
EXTENDS Integers, Sequences, FiniteSets, TLC

\* ---- bounds of the model ----
MaxOps == 2          \* operations one thread issues in a row (general runs)
MaxLen == 2          \* longest buffer handed to Read or Write
MaxFile == 2         \* longest file read back by TestOpen
MaxBuf == 2          \* largest ReadAll buffer

\* capacity of the completion channel: make(chan struct{}) in the first
\* version of interrupt, make(chan struct{}, 1) since
DoneCapUnbuffered == 0
DoneCap == 1

\* The contexts of the process: the one an operation is bound to and another.
Tokens == {"ctxA", "ctxB"}
Kinds == {"Read", "Write", "Seek", "ReadAt", "Close", "OpenFile"}
PassThrough == {"Seek", "ReadAt", "Close", "OpenFile"}
Bytes == {1, 2}
\* The OS threads the scheduler may run the calling goroutine on.
Threads == {"M1", "M2"}

VARIABLES
    env,         \* build, descriptor and peer: [nonblock, data, fail, cap]
    tokDone,     \* contexts whose Done channel is closed
    pc,          \* where the calling goroutine is
    cur,         \* the operation in progress
    raw,         \* result of the last raw call: [n, err]
    ret,         \* what the last finished operation returned
    scopes,      \* one record per interrupt() call, in order
    pin,         \* LockOSThread count of the calling thread
    sigPending,  \* threads intrSig is pending on
    signalCaught, \* intrHandler has run (signalCaughtHandler's flag)
    thr,         \* OS thread the calling goroutine runs on
    handler,     \* disposition of intrSig: "none" or "installed"
    file, off, rbuf, got, rapc   \* TestOpen: file bytes, offset, buffer, ReadAll

fvars == <<file, off, rbuf, got, rapc>>
pvars == <<thr, handler>>
vars == <<env, tokDone, pc, cur, raw, ret, scopes, pin, sigPending, signalCaught,
          thr, handler, file, off, rbuf, got, rapc>>

NoCur == [kind |-> "none", tok |-> "none", len |-> 0, p |-> 0, n |-> 0, acc |-> 0,
          again |-> FALSE,
          res |-> [n |-> 0, err |-> "nil", errOp |-> "none", tokWasDone |-> FALSE]]
NoRaw == [n |-> 0, err |-> "nil"]
NoRet == [id |-> 0, kind |-> "none", tok |-> "none", len |-> 0, n |-> 0, acc |-> 0,
          err |-> "nil", errOp |-> "none", tokWasDone |-> FALSE]

\* ---- errors ----
\* *os.PathError values carry Op and Err; io.EOF is a plain error.
IsPathError(err) == err \in {"EAGAIN", "EINTR", "Fatal", "Canceled"}

\* Op the os package puts in the PathError of a failed raw call.
RawOp(kind) ==
    CASE kind = "Read" -> "read"
      [] kind = "ReadAt" -> "read"
      [] kind = "Write" -> "write"
      [] kind = "Seek" -> "seek"
      [] kind = "Close" -> "close"
      [] OTHER -> "open"

ErrOp(kind, err) == IF IsPathError(err) THEN RawOp(kind) ELSE "none"

\* ---- fio.Read: one turn of the loop after the raw read returned (n, err) ----
ReadClassifyNoRewrite(n, err, len, tokIsDone) ==
    LET eagain == IsPathError(err) /\ err = "EAGAIN"
    IN  IF err # "nil" /\ ~eagain
        THEN [fin |-> TRUE, n |-> n, err |-> err, errOp |-> ErrOp("Read", err)]
        ELSE IF n > 0
        THEN [fin |-> TRUE, n |-> n, err |-> err, errOp |-> ErrOp("Read", err)]
        ELSE IF tokIsDone
        THEN [fin |-> TRUE, n |-> n, err |-> "Canceled", errOp |-> "write"]
        ELSE [fin |-> FALSE, n |-> n, err |-> "nil", errOp |-> "none"]

ReadClassifyNoCheck(n, err, len, tokIsDone) ==
    LET eagain == IsPathError(err) /\ err = "EAGAIN"
        perr == IF IsPathError(err) /\ err = "EINTR" THEN "Canceled" ELSE err
    IN  IF err # "nil" /\ ~eagain
        THEN [fin |-> TRUE, n |-> n, err |-> perr, errOp |-> ErrOp("Read", err)]
        ELSE IF n > 0
        THEN [fin |-> TRUE, n |-> n, err |-> err, errOp |-> ErrOp("Read", err)]
        ELSE [fin |-> FALSE, n |-> n, err |-> "nil", errOp |-> "none"]

ReadClassifyLenData(n, err, len, tokIsDone) ==
    LET eagain == IsPathError(err) /\ err = "EAGAIN"
        perr == IF IsPathError(err) /\ err = "EINTR" THEN "Canceled" ELSE err
    IN  IF err # "nil" /\ ~eagain
        THEN [fin |-> TRUE, n |-> n, err |-> perr, errOp |-> ErrOp("Read", err)]
        ELSE IF n > 0
        THEN [fin |-> TRUE, n |-> len, err |-> err, errOp |-> ErrOp("Read", err)]
        ELSE IF tokIsDone
        THEN [fin |-> TRUE, n |-> n, err |-> "Canceled", errOp |-> "write"]
        ELSE [fin |-> FALSE, n |-> n, err |-> "nil", errOp |-> "none"]

ReadClassifyRetryFatal(n, err, len, tokIsDone) ==
    LET eagain == IsPathError(err) /\ err = "EAGAIN"
        perr == IF IsPathError(err) /\ err = "EINTR" THEN "Canceled" ELSE err
    IN  IF err = "EINTR"
        THEN [fin |-> TRUE, n |-> n, err |-> perr, errOp |-> ErrOp("Read", err)]
        ELSE IF n > 0
        THEN [fin |-> TRUE, n |-> n, err |-> err, errOp |-> ErrOp("Read", err)]
        ELSE IF tokIsDone
        THEN [fin |-> TRUE, n |-> n, err |-> "Canceled", errOp |-> "write"]
        ELSE [fin |-> FALSE, n |-> n, err |-> "nil", errOp |-> "none"]

ReadClassifyZeroOk(n, err, len, tokIsDone) ==
    LET eagain == IsPathError(err) /\ err = "EAGAIN"
        perr == IF IsPathError(err) /\ err = "EINTR" THEN "Canceled" ELSE err
    IN  IF err # "nil" /\ ~eagain
        THEN [fin |-> TRUE, n |-> n, err |-> perr, errOp |-> ErrOp("Read", err)]
        ELSE IF err = "nil"
        THEN [fin |-> TRUE, n |-> n, err |-> err, errOp |-> ErrOp("Read", err)]
        ELSE IF tokIsDone
        THEN [fin |-> TRUE, n |-> n, err |-> "Canceled", errOp |-> "write"]
        ELSE [fin |-> FALSE, n |-> n, err |-> "nil", errOp |-> "none"]

ReadClassify(n, err, len, tokIsDone) ==
    LET eagain == IsPathError(err) /\ err = "EAGAIN"
        perr == IF IsPathError(err) /\ err = "EINTR" THEN "Canceled" ELSE err
    IN  IF err # "nil" /\ ~eagain
        THEN [fin |-> TRUE, n |-> n, err |-> perr, errOp |-> ErrOp("Read", err)]
        ELSE IF n > 0
        THEN [fin |-> TRUE, n |-> n, err |-> err, errOp |-> ErrOp("Read", err)]
        ELSE IF tokIsDone
        THEN [fin |-> TRUE, n |-> n, err |-> "Canceled", errOp |-> "write"]
        ELSE [fin |-> FALSE, n |-> n, err |-> "nil", errOp |-> "none"]

\* ---- fio.Write: one turn of the loop; n so far, p bytes left, raw (wn, err) ----
WriteClassifyNoAccum(n, p, wn, err, tokIsDone) ==
    LET p2 == p - wn
        eagain == IsPathError(err) /\ err = "EAGAIN"
        perr == IF IsPathError(err) /\ err = "EINTR" THEN "Canceled" ELSE err
    IN  IF err # "nil" /\ ~eagain
        THEN [fin |-> TRUE, n |-> wn, p |-> p2, err |-> perr, errOp |-> ErrOp("Write", err)]
        ELSE IF tokIsDone
        THEN [fin |-> TRUE, n |-> wn, p |-> p2, err |-> "Canceled", errOp |-> "write"]
        ELSE IF p2 > 0
        THEN [fin |-> FALSE, n |-> wn, p |-> p2, err |-> "nil", errOp |-> "none"]
        ELSE [fin |-> TRUE, n |-> wn, p |-> p2, err |-> "nil", errOp |-> "none"]

WriteClassifyOnce(n, p, wn, err, tokIsDone) ==
    LET n2 == n + wn
        p2 == p - wn
        eagain == IsPathError(err) /\ err = "EAGAIN"
        perr == IF IsPathError(err) /\ err = "EINTR" THEN "Canceled" ELSE err
    IN  IF err # "nil" /\ ~eagain
        THEN [fin |-> TRUE, n |-> n2, p |-> p2, err |-> perr, errOp |-> ErrOp("Write", err)]
        ELSE IF tokIsDone
        THEN [fin |-> TRUE, n |-> n2, p |-> p2, err |-> "Canceled", errOp |-> "write"]
        ELSE [fin |-> TRUE, n |-> n2, p |-> p2, err |-> "nil", errOp |-> "none"]

WriteClassifyTailFirst(n, p, wn, err, tokIsDone) ==
    LET n2 == n + wn
        p2 == p - wn
        eagain == IsPathError(err) /\ err = "EAGAIN"
        perr == IF IsPathError(err) /\ err = "EINTR" THEN "Canceled" ELSE err
    IN  IF err # "nil" /\ ~eagain
        THEN [fin |-> TRUE, n |-> n2, p |-> p2, err |-> perr, errOp |-> ErrOp("Write", err)]
        ELSE IF p2 = 0
        THEN [fin |-> TRUE, n |-> n2, p |-> p2, err |-> "nil", errOp |-> "none"]
        ELSE IF tokIsDone
        THEN [fin |-> TRUE, n |-> n2, p |-> p2, err |-> "Canceled", errOp |-> "write"]
        ELSE [fin |-> FALSE, n |-> n2, p |-> p2, err |-> "nil", errOp |-> "none"]

WriteClassify(n, p, wn, err, tokIsDone) ==
    LET n2 == n + wn
        p2 == p - wn
        eagain == IsPathError(err) /\ err = "EAGAIN"
        perr == IF IsPathError(err) /\ err = "EINTR" THEN "Canceled" ELSE err
    IN  IF err # "nil" /\ ~eagain
        THEN [fin |-> TRUE, n |-> n2, p |-> p2, err |-> perr, errOp |-> ErrOp("Write", err)]
        ELSE IF tokIsDone
        THEN [fin |-> TRUE, n |-> n2, p |-> p2, err |-> "Canceled", errOp |-> "write"]
        ELSE IF p2 > 0
        THEN [fin |-> FALSE, n |-> n2, p |-> p2, err |-> "nil", errOp |-> "none"]
        ELSE [fin |-> TRUE, n |-> n2, p |-> p2, err |-> "nil", errOp |-> "none"]

\* ---- Seek, ReadAt, Close, OpenFile: the raw result is returned as it is ----
PassClassify(kind, n, err) ==
    [fin |-> TRUE, n |-> n, err |-> err, errOp |-> ErrOp(kind, err)]

\* ---- state when the process starts, before init() ----
TypeOK ==
    /\ env \in [nonblock : BOOLEAN, data : BOOLEAN, fail : BOOLEAN,
                cap : {DoneCapUnbuffered, DoneCap}]
    /\ tokDone \subseteq Tokens
    /\ pc \in {"start", "panic", "idle", "issue", "insys", "classify", "cleanup", "send"}
    /\ pin \in 0..1
    /\ sigPending \subseteq Threads
    /\ thr \in Threads
    /\ handler \in {"none", "installed"}
    /\ signalCaught \in BOOLEAN
    /\ off \in 0..Len(file)

\* cap is the capacity interrupt() gives its done channel.
Start(cap) ==
    /\ env \in [nonblock : BOOLEAN, data : BOOLEAN, fail : BOOLEAN, cap : {cap}]
    /\ tokDone = {}
    /\ pc = "start"
    /\ cur = NoCur
    /\ raw = NoRaw
    /\ ret = NoRet
    /\ scopes = <<>>
    /\ pin = 0
    /\ sigPending = {}
    /\ signalCaught = FALSE
    /\ thr = "M1"
    /\ handler = "none"
    /\ file = <<>> /\ off = 0 /\ rbuf = <<>> /\ got = <<>> /\ rapc = "off"

Init == Start(DoneCap)

\* ---- init(): setsighandler() ----
\* sigaction reports errno; a failure panics, which ends the process before
\* main or any test runs.
setsighandlerNoPanic(errno) ==
    /\ handler' = IF errno = 0 THEN "installed" ELSE "none"
    /\ pc' = "idle"

setsighandler(errno) ==
    /\ handler' = IF errno = 0 THEN "installed" ELSE "none"
    /\ pc' = IF errno = 0 THEN "idle" ELSE "panic"

PkgInit(errno) ==
    /\ pc = "start"
    /\ setsighandler(errno)
    /\ UNCHANGED <<env, tokDone, cur, raw, ret, scopes, pin, sigPending, signalCaught, thr>>
    /\ UNCHANGED fvars

\* ---- the context ----
\* cancel(): the token goes from pending to done, once.
Cancel(t) ==
    /\ t \notin tokDone
    /\ tokDone' = tokDone \cup {t}
    /\ UNCHANGED <<env, pc, cur, raw, ret, scopes, pin, sigPending, signalCaught>>
    /\ UNCHANGED fvars
    /\ UNCHANGED pvars

\* ---- interrupt(ctx): pin the thread, make the channel, start the watcher ----
interruptNoLock(t) ==
    /\ pin' = pin
    /\ scopes' = Append(scopes, [tok |-> t, tid |-> thr, watcher |-> "waiting",
                                 done |-> 0, sent |-> 0, late |-> FALSE,
                                 released |-> FALSE])

interrupt(t) ==
    /\ pin' = pin + 1
    /\ scopes' = Append(scopes, [tok |-> t, tid |-> thr, watcher |-> "waiting",
                                 done |-> 0, sent |-> 0, late |-> FALSE,
                                 released |-> FALSE])

\* An adapter operation is entered: defer interrupt(fio.ctx)() and the first
\* statement of its body.  Write with an empty buffer skips its loop.
Begin(kind, t, len) ==
    /\ pc = "idle"
    /\ interrupt(t)
    /\ cur' = [NoCur EXCEPT !.kind = kind, !.tok = t, !.len = len, !.p = len]
    /\ pc' = IF kind = "Write" /\ len = 0 THEN "cleanup" ELSE "issue"
    /\ ret' = NoRet
    /\ UNCHANGED <<env, tokDone, raw, sigPending, signalCaught>>

Call(kind, t, len) ==
    /\ Len(scopes) < MaxOps
    /\ rapc = "off"
    /\ Begin(kind, t, len)
    /\ UNCHANGED fvars
    /\ UNCHANGED pvars

\* ---- the raw call ----
\* The thread enters the kernel.
RawIssue ==
    /\ pc = "issue"
    /\ pc' = "insys"
    /\ UNCHANGED <<env, tokDone, cur, raw, ret, scopes, pin, sigPending, signalCaught>>
    /\ UNCHANGED fvars
    /\ UNCHANGED pvars

RawReturn(n, err) ==
    /\ pc = "insys"
    /\ raw' = [n |-> n, err |-> err]
    /\ cur' = [cur EXCEPT !.acc = IF cur.kind = "Write" THEN @ + n ELSE @]
    /\ pc' = "classify"
    /\ UNCHANGED <<env, tokDone, ret, scopes, pin, sigPending, signalCaught>>

\* A read into an empty buffer returns (0, nil) at once.
RawEmpty ==
    /\ cur.kind = "Read" /\ cur.len = 0
    /\ RawReturn(0, "nil")
    /\ UNCHANGED fvars
    /\ UNCHANGED pvars

\* The call succeeds: bytes arrive for a read, the kernel accepts bytes of a
\* write.
RawData(n) ==
    /\ rapc = "off"
    /\ \/ env.data /\ cur.kind = "Read" /\ n \in 1..cur.len
       \/ env.data /\ cur.kind = "Write" /\ n \in 1..cur.p
       \/ env.data /\ cur.kind \in PassThrough /\ n = 0
    /\ RawReturn(n, "nil")
    /\ UNCHANGED fvars
    /\ UNCHANGED pvars

\* The descriptor is in non-blocking mode and the call would block (a read,
\* a write or a read at an offset; seek, close and open do not wait for data).
RawEAGAIN(n) ==
    /\ env.nonblock
    /\ \/ cur.kind = "Read" /\ cur.len > 0 /\ n = 0
       \/ cur.kind = "Write" /\ n \in 0..(cur.p - 1)
       \/ cur.kind = "ReadAt" /\ rapc = "off" /\ n = 0
    /\ RawReturn(n, "EAGAIN")
    /\ UNCHANGED fvars
    /\ UNCHANGED pvars

\* The call fails with an error that is neither EAGAIN nor EINTR.
RawFail(n, err) ==
    /\ env.fail
    /\ rapc = "off"
    /\ \/ cur.kind = "Read" /\ cur.len > 0 /\ n = 0 /\ err \in {"Fatal", "EOF"}
       \/ cur.kind = "Write" /\ n \in 0..(cur.p - 1) /\ err = "Fatal"
       \/ cur.kind \in PassThrough /\ n = 0 /\ err = "Fatal"
    /\ RawReturn(n, err)
    /\ UNCHANGED fvars
    /\ UNCHANGED pvars

\* ---- the interrupt signal ----
\* threadKill(tid): intrSig becomes pending on the thread; the error is dropped.
threadKillLost(tid) ==
    sigPending' = sigPending

threadKill(tid) ==
    sigPending' = sigPending \cup {tid}

\* The thread sleeps in the kernel: it is inside a raw call on a descriptor in
\* blocking mode (a read into an empty buffer never sleeps).
Sleeping ==
    /\ pc = "insys"
    /\ ~env.nonblock
    /\ ~(cur.kind = "Read" /\ cur.len = 0)

\* The kernel delivers intrSig to thread m: intrHandler runs, and a call the
\* thread sleeps in returns EINTR (the handler is installed without
\* SA_RESTART).
SignalDeliverRestart(m) ==
    /\ m \in sigPending
    /\ handler = "installed"
    /\ sigPending' = sigPending \ {m}
    /\ signalCaught' = TRUE
    /\ UNCHANGED <<raw, pc>>
    /\ UNCHANGED <<env, tokDone, cur, ret, scopes, pin>>
    /\ UNCHANGED fvars
    /\ UNCHANGED pvars

SignalDeliver(m) ==
    /\ m \in sigPending
    /\ handler = "installed"
    /\ sigPending' = sigPending \ {m}
    /\ signalCaught' = TRUE
    /\ IF m = thr /\ Sleeping
       THEN /\ raw' = [n |-> 0, err |-> "EINTR"]
            /\ pc' = "classify"
       ELSE UNCHANGED <<raw, pc>>
    /\ UNCHANGED <<env, tokDone, cur, ret, scopes, pin>>
    /\ UNCHANGED fvars
    /\ UNCHANGED pvars

\* ---- the watcher goroutine of scope i: select { <-ctx.Done(); <-done } ----
WatcherSignalEager(i) ==
    /\ i \in 1..Len(scopes)
    /\ scopes[i].watcher = "waiting"
    /\ threadKill(scopes[i].tid)
    /\ scopes' = [scopes EXCEPT ![i].watcher = "exited", ![i].sent = @ + 1]
    /\ UNCHANGED <<env, tokDone, pc, cur, raw, ret, pin, signalCaught>>
    /\ UNCHANGED fvars
    /\ UNCHANGED pvars

\* History: scope i is released and the thread sleeps in a later call.
LateFor(i) == scopes[i].released /\ i < Len(scopes) /\ Sleeping

WatcherSignal(i) ==
    /\ i \in 1..Len(scopes)
    /\ scopes[i].watcher = "waiting"
    /\ scopes[i].tok \in tokDone
    /\ threadKill(scopes[i].tid)
    /\ scopes' = [scopes EXCEPT ![i].watcher = "exited", ![i].sent = @ + 1,
                                ![i].late = LateFor(i)]
    /\ UNCHANGED <<env, tokDone, pc, cur, raw, ret, pin, signalCaught>>
    /\ UNCHANGED fvars
    /\ UNCHANGED pvars

WatcherDoneDeaf(i) ==
    /\ FALSE
    /\ UNCHANGED vars

WatcherDone(i) ==
    /\ i \in 1..Len(scopes)
    /\ scopes[i].watcher = "waiting"
    /\ scopes[i].done > 0
    /\ scopes' = [scopes EXCEPT ![i].watcher = "exited", ![i].done = @ - 1]
    /\ UNCHANGED <<env, tokDone, pc, cur, raw, ret, pin, sigPending, signalCaught>>
    /\ UNCHANGED fvars
    /\ UNCHANGED pvars

\* ---- the loop body after the raw call ----
Classified ==
    CASE cur.kind = "Read" ->
            [ReadClassify(raw.n, raw.err, cur.len, cur.tok \in tokDone)
                EXCEPT !.n = @] @@ [p |-> cur.p]
      [] cur.kind = "Write" ->
            WriteClassify(cur.n, cur.p, raw.n, raw.err, cur.tok \in tokDone)
      [] OTHER ->
            PassClassify(cur.kind, raw.n, raw.err) @@ [p |-> cur.p]

Classify ==
    /\ pc = "classify"
    /\ LET r == Classified
       IN  /\ cur' = [cur EXCEPT !.n = r.n, !.p = r.p, !.again = @ \/ ~r.fin,
                         !.res = [n |-> r.n, err |-> r.err, errOp |-> r.errOp,
                                  tokWasDone |-> cur.tok \in tokDone]]
           /\ pc' = IF r.fin THEN "cleanup" ELSE "issue"
    /\ raw' = NoRaw
    /\ UNCHANGED <<env, tokDone, ret, scopes, pin, sigPending, signalCaught>>
    /\ UNCHANGED fvars
    /\ UNCHANGED pvars

\* ---- cleanup(): runtime.UnlockOSThread(); done <- struct{}{} ----
CleanupUnlock ==
    /\ pc = "cleanup"
    /\ pin' = pin - 1
    /\ pc' = "send"
    /\ UNCHANGED <<env, tokDone, cur, raw, ret, scopes, sigPending, signalCaught>>
    /\ UNCHANGED fvars
    /\ UNCHANGED pvars

\* A send proceeds when the buffer has room, or, on an unbuffered channel,
\* when the watcher is at its select.
CanSend(i) ==
    \/ scopes[i].done < env.cap
    \/ env.cap = 0 /\ scopes[i].watcher = "waiting"

CleanupSendNothing ==
    /\ pc = "send"
    /\ LET i == Len(scopes)
       IN  /\ scopes' = [scopes EXCEPT ![i].released = TRUE]
           /\ ret' = [id |-> i, kind |-> cur.kind, tok |-> cur.tok, len |-> cur.len,
                      n |-> cur.res.n, acc |-> cur.acc, err |-> cur.res.err,
                      errOp |-> cur.res.errOp, tokWasDone |-> cur.res.tokWasDone]
    /\ pc' = "idle"
    /\ cur' = NoCur
    /\ UNCHANGED <<env, tokDone, raw, pin, sigPending, signalCaught>>
    /\ UNCHANGED fvars
    /\ UNCHANGED pvars

CleanupSend ==
    /\ pc = "send"
    /\ LET i == Len(scopes)
       IN  /\ CanSend(i)
           /\ scopes' = IF scopes[i].done < env.cap
                        THEN [scopes EXCEPT ![i].done = @ + 1, ![i].released = TRUE]
                        ELSE [scopes EXCEPT ![i].watcher = "exited",
                                            ![i].released = TRUE]
           /\ ret' = [id |-> i, kind |-> cur.kind, tok |-> cur.tok, len |-> cur.len,
                      n |-> cur.res.n, acc |-> cur.acc, err |-> cur.res.err,
                      errOp |-> cur.res.errOp, tokWasDone |-> cur.res.tokWasDone]
    /\ pc' = "idle"
    /\ cur' = NoCur
    /\ UNCHANGED <<env, tokDone, raw, pin, sigPending, signalCaught>>
    /\ UNCHANGED fvars
    /\ UNCHANGED pvars

Next ==
    \/ \E errno \in {0, 1} : PkgInit(errno)
    \/ \E t \in Tokens : Cancel(t)
    \/ \E k \in Kinds, t \in Tokens, len \in 0..MaxLen :
          Call(k, t, IF k \in PassThrough THEN 0 ELSE len)
    \/ RawIssue
    \/ RawEmpty
    \/ \E n \in 0..MaxLen : RawData(n)
    \/ \E n \in 0..MaxLen : RawEAGAIN(n)
    \/ \E n \in 0..MaxLen, e \in {"Fatal", "EOF"} : RawFail(n, e)
    \/ \E m \in Threads : SignalDeliver(m)
    \/ \E i \in 1..MaxOps : WatcherSignal(i)
    \/ \E i \in 1..MaxOps : WatcherDone(i)
    \/ Classify
    \/ CleanupUnlock
    \/ CleanupSend

Spec == Init /\ [][Next]_vars

\* ---- scheduling ----
\* The Go scheduler runs every runnable goroutine, the kernel delivers a
\* pending signal and returns from a call that cannot sleep.  Cancellation,
\* arrival of data, raw failures and new calls are up to the environment.
CallerStep ==
    \/ RawIssue
    \/ RawEmpty
    \/ \E n \in 0..MaxLen : RawEAGAIN(n)
    \/ Classify
    \/ CleanupUnlock
    \/ CleanupSend

WatcherStep ==
    \E i \in 1..MaxOps : WatcherSignal(i) \/ WatcherDone(i)

Fairness ==
    /\ WF_vars(CallerStep)
    /\ WF_vars(WatcherStep)
    /\ WF_vars(\E m \in Threads : SignalDeliver(m))

\* The descriptor never has data and never fails.
Silent == ~env.data /\ ~env.fail
Released(i) == i \in 1..Len(scopes) /\ scopes[i].released
Exited(i) == i \in 1..Len(scopes) /\ scopes[i].watcher = "exited"

\* Reads on a descriptor that stays silent: only cancellation ends them.
InitSilent == Init /\ Silent

NextSilent ==
    \/ \E errno \in {0, 1} : PkgInit(errno)
    \/ \E t \in Tokens : Cancel(t)
    \/ \E t \in Tokens, len \in 0..MaxLen : Call("Read", t, len)
    \/ RawIssue
    \/ RawEmpty
    \/ \E n \in 0..MaxLen : RawEAGAIN(n)
    \/ \E m \in Threads : SignalDeliver(m)
    \/ \E i \in 1..MaxOps : WatcherSignal(i)
    \/ \E i \in 1..MaxOps : WatcherDone(i)
    \/ Classify
    \/ CleanupUnlock
    \/ CleanupSend

SilentSpec == InitSilent /\ [][NextSilent]_vars /\ Fairness

\* A raw call under defer interrupt(ctx)(), as in TestInterruptRead and in
\* ReadAt: the raw result is what the caller gets.
NextScope ==
    \/ \E errno \in {0, 1} : PkgInit(errno)
    \/ \E t \in Tokens : Cancel(t)
    \/ \E t \in Tokens : Call("ReadAt", t, 0)
    \/ RawIssue
    \/ \E n \in 0..MaxLen : RawData(n)
    \/ \E n \in 0..MaxLen : RawEAGAIN(n)
    \/ \E n \in 0..MaxLen, e \in {"Fatal", "EOF"} : RawFail(n, e)
    \/ \E m \in Threads : SignalDeliver(m)
    \/ \E i \in 1..MaxOps : WatcherSignal(i)
    \/ \E i \in 1..MaxOps : WatcherDone(i)
    \/ Classify
    \/ CleanupUnlock
    \/ CleanupSend

ScopeSpec == Init /\ [][NextScope]_vars /\ Fairness

\* ---- the earlier interrupt(): done := make(chan struct{}) ----
\* On the unbuffered channel the send in cleanup() and the watcher's receive
\* are one step (CleanupSend); the watcher has no receive of its own.
InitUnbuffered == Start(DoneCapUnbuffered)

NextUnbuffered ==
    \/ \E errno \in {0, 1} : PkgInit(errno)
    \/ \E t \in Tokens : Cancel(t)
    \/ \E t \in Tokens : Call("ReadAt", t, 0)
    \/ RawIssue
    \/ \E n \in 0..MaxLen : RawData(n)
    \/ \E n \in 0..MaxLen : RawEAGAIN(n)
    \/ \E n \in 0..MaxLen, e \in {"Fatal", "EOF"} : RawFail(n, e)
    \/ \E m \in Threads : SignalDeliver(m)
    \/ \E i \in 1..MaxOps : WatcherSignal(i)
    \/ Classify
    \/ CleanupUnlock
    \/ CleanupSend

UnbufferedSpec == InitUnbuffered /\ [][NextUnbuffered]_vars

\* ---- the Go scheduler ----
\* A goroutine that is not locked to its thread may be resumed on another
\* thread at any point; between two operations and, inside cleanup(), between
\* UnlockOSThread and the send are the points the caller passes unlocked.
Migrate(m) ==
    /\ pin = 0
    /\ pc \in {"idle", "issue", "classify", "cleanup", "send"}
    /\ m # thr
    /\ thr' = m
    /\ UNCHANGED <<env, tokDone, pc, cur, raw, ret, scopes, pin, sigPending,
                   signalCaught, handler>>
    /\ UNCHANGED fvars

\* Raw calls under interrupt() in a process with several OS threads.
NextThread ==
    \/ \E errno \in {0, 1} : PkgInit(errno)
    \/ Cancel("ctxA")
    \/ Call("ReadAt", "ctxA", 0)
    \/ \E m \in Threads : Migrate(m)
    \/ RawIssue
    \/ \E n \in 0..MaxLen : RawData(n)
    \/ \E n \in 0..MaxLen : RawEAGAIN(n)
    \/ \E n \in 0..MaxLen, e \in {"Fatal", "EOF"} : RawFail(n, e)
    \/ \E m \in Threads : SignalDeliver(m)
    \/ \E i \in 1..MaxOps : WatcherSignal(i)
    \/ \E i \in 1..MaxOps : WatcherDone(i)
    \/ Classify
    \/ CleanupUnlock
    \/ CleanupSend

ThreadSpec == Init /\ [][NextThread]_vars

\* Reads and Writes on one *File: every operation runs under the context the
\* File was made with (fio.ctx).
NextStream ==
    \/ \E errno \in {0, 1} : PkgInit(errno)
    \/ Cancel("ctxA")
    \/ \E k \in {"Read", "Write"}, len \in 0..MaxLen : Call(k, "ctxA", len)
    \/ RawIssue
    \/ RawEmpty
    \/ \E n \in 0..MaxLen : RawData(n)
    \/ \E n \in 0..MaxLen : RawEAGAIN(n)
    \/ \E n \in 0..MaxLen, e \in {"Fatal", "EOF"} : RawFail(n, e)
    \/ \E m \in Threads : SignalDeliver(m)
    \/ \E i \in 1..MaxOps : WatcherSignal(i)
    \/ \E i \in 1..MaxOps : WatcherDone(i)
    \/ Classify
    \/ CleanupUnlock
    \/ CleanupSend

StreamSpec == Init /\ [][NextStream]_vars

\* ---- TestOpen: Open, then ioutil.ReadAll over the adapter ----
Min(a, b) == IF a < b THEN a ELSE b
Zeros(k) == [i \in 1..k |-> 0]
FileSeqs == UNION {[1..k -> Bytes] : k \in 0..MaxFile}

\* Open passes O_NONBLOCK; the contexts are never cancelled.
InitFile ==
    /\ env = [nonblock |-> TRUE, data |-> TRUE, fail |-> FALSE, cap |-> DoneCap]
    /\ tokDone = {}
    /\ pc = "start"
    /\ cur = NoCur
    /\ raw = NoRaw
    /\ ret = NoRet
    /\ scopes = <<>>
    /\ pin = 0
    /\ sigPending = {}
    /\ signalCaught = FALSE
    /\ thr = "M1"
    /\ handler = "none"
    /\ file \in FileSeqs
    /\ off = 0 /\ rbuf = <<>> /\ got = <<>> /\ rapc = "open"

\* Open(ctx, path) -> OpenFile: defer interrupt(ctx)(); os.OpenFile(...)
FileOpen(t) ==
    /\ rapc = "open"
    /\ Begin("OpenFile", t, 0)
    /\ rapc' = "opening"
    /\ UNCHANGED <<file, off, rbuf, got>>
    /\ UNCHANGED pvars

\* os.OpenFile of the file just written succeeds.
FileRawOpen ==
    /\ rapc = "opening"
    /\ cur.kind = "OpenFile"
    /\ RawReturn(0, "nil")
    /\ UNCHANGED fvars
    /\ UNCHANGED pvars

FileOpened ==
    /\ rapc = "opening"
    /\ pc = "idle"
    /\ rapc' = IF ret.err = "nil" THEN "loop" ELSE "err"
    /\ UNCHANGED <<env, tokDone, pc, cur, raw, ret, scopes, pin, sigPending, signalCaught>>
    /\ UNCHANGED <<file, off, rbuf, got>>
    /\ UNCHANGED pvars

\* ReadAll hands Read the free part of its buffer, of some length >= 1.
ReadAllRead(t, len) ==
    /\ rapc = "loop"
    /\ Begin("Read", t, len)
    /\ rapc' = "reading"
    /\ UNCHANGED <<file, off, rbuf, got>>
    /\ UNCHANGED pvars

\* read(2) on the file: up to len bytes from the offset, end of file after
\* the last byte.
FileRawRead(n) ==
    /\ rapc = "reading"
    /\ cur.kind = "Read"
    /\ IF off < Len(file)
       THEN /\ n \in 1..Min(cur.len, Len(file) - off)
            /\ RawReturn(n, "nil")
            /\ rbuf' = SubSeq(file, off + 1, off + n) \o Zeros(cur.len - n)
            /\ off' = off + n
       ELSE /\ n = 0
            /\ RawReturn(0, "EOF")
            /\ rbuf' = Zeros(cur.len)
            /\ off' = off
    /\ UNCHANGED <<file, got, rapc>>
    /\ UNCHANGED pvars

\* ReadAll keeps the n bytes Read reported, stops at io.EOF or at an error.
ReadAllGot ==
    /\ rapc = "reading"
    /\ pc = "idle"
    /\ got' = got \o SubSeq(rbuf, 1, ret.n)
    /\ rapc' = CASE ret.err = "nil" -> "loop"
                 [] ret.err = "EOF" -> "done"
                 [] OTHER -> "err"
    /\ UNCHANGED <<env, tokDone, pc, cur, raw, ret, scopes, pin, sigPending, signalCaught>>
    /\ UNCHANGED <<file, off, rbuf>>
    /\ UNCHANGED pvars

NextFile ==
    \/ \E errno \in {0, 1} : PkgInit(errno)
    \/ \E t \in Tokens : FileOpen(t)
    \/ FileRawOpen
    \/ FileOpened
    \/ \E t \in Tokens, len \in 1..MaxBuf : ReadAllRead(t, len)
    \/ \E n \in 0..MaxBuf : FileRawRead(n)
    \/ ReadAllGot
    \/ RawIssue
    \/ \E n \in 0..MaxLen : RawEAGAIN(n)
    \/ \E i \in 1..(MaxFile + 2) : WatcherDone(i)
    \/ Classify
    \/ CleanupUnlock
    \/ CleanupSend

FileSpec == InitFile /\ [][NextFile]_vars

\* ======================= the claims =======================

\* C1: Read and Write return a cancellation error only if the operation's
\* own context is done; an EINTR while it is pending is retried.
C1_CancelOnlyIfTokenDone ==
    (ret.kind \in {"Read", "Write"} /\ ret.err = "Canceled") => ret.tokWasDone

\* C2: a Read blocked in the kernel on a blocking descriptor that never gets
\* data, whose context is done while its watcher is still waiting, returns,
\* and returns the cancellation error.
C2_CancelUnblocksRead ==
    \A k \in 1..MaxOps :
        (/\ Len(scopes) = k /\ cur.kind = "Read" /\ cur.len > 0
         /\ Sleeping /\ Silent
         /\ cur.tok \in tokDone /\ scopes[k].watcher = "waiting")
        ~> (ret.id = k /\ ret.kind = "Read" /\ ret.err = "Canceled")

C2_Witness ==
    /\ ret.kind = "Read" /\ ret.err = "Canceled" /\ ret.errOp = "read"
    /\ ret.tokWasDone /\ ~env.nonblock /\ Silent /\ signalCaught

\* C3: Write returns, with a cancellation error, the number of bytes the
\* kernel accepted over all attempts, and each attempt is handed only the
\* tail that is still unwritten.
C3_WritePartialProgress ==
    /\ (cur.kind = "Write" /\ pc \in {"issue", "insys"}) =>
            (cur.p = cur.len - cur.acc /\ cur.p > 0 /\ cur.n = cur.acc)
    /\ (ret.kind = "Write" /\ ret.err = "Canceled") =>
            (ret.n = ret.acc /\ ret.n <= ret.len)

C3_Witness ==
    /\ ret.kind = "Write" /\ ret.err = "Canceled"
    /\ ret.n = ret.acc /\ 0 < ret.n /\ ret.n < ret.len

\* C4: on a non-blocking descriptor that never has data, a Read whose context
\* is done returns with a cancellation error instead of spinning on.
C4_NonBlockingReadCancels ==
    \A k \in 1..MaxOps :
        (/\ Len(scopes) = k /\ cur.kind = "Read"
         /\ pc \in {"issue", "insys", "classify"} /\ env.nonblock /\ Silent
         /\ cur.tok \in tokDone)
        ~> (ret.id = k /\ ret.kind = "Read" /\ ret.err = "Canceled")

C4_Witness ==
    /\ ret.kind = "Read" /\ ret.err = "Canceled" /\ ret.len > 0
    /\ env.nonblock /\ Silent /\ ret.tokWasDone

\* C5: when cleanup reaches its send on the completion channel the send can
\* proceed, whatever the watcher and the context have done.
C5_ReleaseNeverBlocks ==
    pc = "send" => CanSend(Len(scopes))

C5_Witness ==
    /\ pc = "send"
    /\ scopes[Len(scopes)].watcher = "exited"
    /\ scopes[Len(scopes)].sent = 1

\* C6: every watcher of a released scope terminates, and the thread is
\* pinned exactly while an operation is between interrupt and cleanup.
C6_NoWatcherLeak ==
    /\ \A i \in 1..MaxOps : Released(i) ~> Exited(i)
    /\ [](pin = IF pc \in {"issue", "insys", "classify", "cleanup"} THEN 1 ELSE 0)

C6_Witness ==
    /\ Len(scopes) = 2 /\ pc = "idle" /\ pin = 0
    /\ Released(1) /\ Exited(1) /\ scopes[1].sent = 1
    /\ Released(2) /\ Exited(2) /\ scopes[2].sent = 0

\* No signal is pending and no earlier scope's watcher is still around.
NoStray(k) ==
    /\ sigPending = {}
    /\ \A j \in 1..(k - 1) : scopes[j].watcher = "exited"

\* C7: the context is done while the thread sleeps in a raw call under an
\* interrupt scope whose watcher is waiting: a watcher sends the signal, the
\* handler runs and the raw call returns EINTR; with no other signal or
\* watcher around it is the scope's own watcher that sends.
C7_CancelInterruptsRawRead ==
    \A k \in 1..MaxOps :
        /\ (/\ Len(scopes) = k /\ Sleeping /\ Silent
            /\ cur.tok \in tokDone /\ scopes[k].watcher = "waiting")
           ~> (/\ Len(scopes) = k /\ pc = "classify" /\ raw.err = "EINTR"
               /\ signalCaught /\ \E i \in 1..k : scopes[i].sent = 1)
        /\ (/\ Len(scopes) = k /\ Sleeping /\ Silent
            /\ cur.tok \in tokDone /\ scopes[k].watcher = "waiting" /\ NoStray(k))
           ~> (/\ Len(scopes) = k /\ pc = "classify" /\ raw.err = "EINTR"
               /\ signalCaught /\ scopes[k].sent = 1)

C7_Witness ==
    /\ Len(scopes) = 1 /\ pc = "classify" /\ raw.err = "EINTR"
    /\ signalCaught /\ scopes[1].sent = 1 /\ ~scopes[1].released

\* C8: no adapter operation returns EAGAIN or a raw EINTR to its caller.
C8_OnlyCanceledOrFatalEscape ==
    ret.err \notin {"EAGAIN", "EINTR"}

\* C9: a cancellation error of Read names the operation "read", one of Write
\* names "write".
C9_CancelErrorNamesOperation ==
    /\ (ret.kind = "Read" /\ ret.err = "Canceled") => ret.errOp = "read"
    /\ (ret.kind = "Write" /\ ret.err = "Canceled") => ret.errOp = "write"

\* C10: ReadAll over the adapter, contexts never done, ends at end of file
\* with exactly the file's bytes, whatever buffer sizes it reads with.
C10_ReadAllYieldsFile ==
    /\ rapc # "err"
    /\ Len(got) <= Len(file) /\ got = SubSeq(file, 1, Len(got))
    /\ rapc = "done" => got = file

C10_Witness ==
    /\ rapc = "done" /\ got = file /\ Len(file) = 2 /\ Len(scopes) = 4
\* C11: in Read and Write a raw error other than EAGAIN and EINTR (io.EOF
\* included) ends the loop at once: the step that examines it leaves for the
\* deferred cleanup, never for another raw call, and the error the caller
\* gets is that raw error, with the Op the raw call gave it.
Fatal(err) == err \notin {"nil", "EAGAIN", "EINTR"}

C11_FatalErrorReturnsAtOnce ==
    [][(/\ pc = "classify"
        /\ cur.kind \in {"Read", "Write"}
        /\ Fatal(raw.err)
        /\ pc' # "classify")
       => (/\ pc' = "cleanup"
           /\ cur'.res.err = raw.err
           /\ cur'.res.errOp = ErrOp(cur.kind, raw.err))]_vars

\* A Read whose raw read hit end of file returned io.EOF as it came.
C11_Witness ==
    /\ ret.kind = "Read"
    /\ ret.len > 0
    /\ ret.err = "EOF"
    /\ ret.errOp = "none"

\* C12: a Read that returns a nil error returns n > 0; and when the raw read
\* gave zero bytes with no error or with EAGAIN, Read goes round its loop
\* again unless its context is done, in which case it returns the
\* cancellation error.
C12_ReadNeverReturnsZeroSuccess ==
    /\ [](ret.kind = "Read" /\ ret.err = "nil" => ret.n > 0)
    /\ [][(/\ pc = "classify"
            /\ cur.kind = "Read"
            /\ raw.n = 0
            /\ raw.err \in {"nil", "EAGAIN"}
            /\ pc' # "classify")
           => IF cur.tok \in tokDone
              THEN pc' = "cleanup" /\ cur'.res.err = "Canceled"
              ELSE pc' = "issue" /\ cur'.again]_vars

\* A Read went round its loop at least once and then returns bytes.
C12_Witness ==
    /\ pc = "send"
    /\ cur.kind = "Read"
    /\ cur.again
    /\ cur.res.err = "nil"
    /\ cur.res.n > 0

\* C13: an operation is only ever begun in a process whose init() installed
\* intrHandler: init runs before any operation, and when sigaction fails the
\* process has panicked and runs nothing.
C13_NoOperationWithoutHandler ==
    /\ pc = "start" => scopes = <<>>
    /\ handler # "installed" => pc \in {"start", "panic"} /\ scopes = <<>>
    /\ pc = "panic" => handler = "none"

\* sigaction failed in init(): the process panicked before any operation.
C13_Witness ==
    /\ pc = "panic"
    /\ handler = "none"
    /\ scopes = <<>>

\* C14 as stated: once an operation has returned, the watcher started for it
\* has stopped and the thread is unpinned.
Returned == pc = "idle" /\ ret.id > 0

C14_ScopeDestroyedOnReturn ==
    Returned => pin = 0 /\ Exited(ret.id)

\* C14 as the code has it: once an operation has returned, on every exit
\* path, the thread is unpinned and the watcher of every scope so far has
\* either stopped or has the completion message waiting in its channel; the
\* watcher itself may still be at its select.
C14_ScopeReleasedOnReturn ==
    Returned =>
        /\ pin = 0
        /\ \A i \in 1..Len(scopes) :
              /\ scopes[i].released
              /\ scopes[i].watcher = "exited" \/ scopes[i].done = 1
        /\ ret.id = Len(scopes)

\* An operation returned a raw failure and its watcher has not run yet.
C14_Witness ==
    /\ Returned
    /\ ret.err = "Fatal"
    /\ pin = 0
    /\ scopes[ret.id].watcher = "waiting"
    /\ scopes[ret.id].done = 1

\* C15: the late signal.  A watcher that sends after its scope is released,
\* while the thread sleeps in a later call, sends to that thread, and the
\* delivery makes the later call return EINTR.  The first call had returned
\* success: on a blocking descriptor that does not fail, a call that returns
\* before any signal was sent returns a nil error.
C15_LateSignalInterruptsNextCall ==
    /\ [](\A i \in 1..Len(scopes) :
            scopes[i].late => /\ scopes[i].released
                              /\ scopes[i].sent = 1
                              /\ scopes[i].tok \in tokDone
                              /\ i < Len(scopes))
    /\ []((/\ Returned /\ ret.id = 1 /\ scopes[1].sent = 0
            /\ ~env.nonblock /\ ~env.fail)
           => ret.err = "nil")
    /\ [][\A i \in 1..Len(scopes) :
            (LateFor(i) /\ scopes'[i].sent > scopes[i].sent)
            => (/\ scopes[i].tid = thr
                /\ thr \in sigPending'
                /\ Sleeping'
                /\ scopes'[i].late)]_vars
    /\ [][(thr \in sigPending /\ Sleeping /\ thr \notin sigPending')
           => (raw'.err = "EINTR" /\ pc' = "classify")]_vars

\* The second call, whose own context is pending and whose own watcher has
\* sent nothing, has been interrupted by the first scope's late signal.
C15_Witness ==
    /\ Len(scopes) = 2
    /\ ~env.nonblock /\ ~env.fail
    /\ scopes[1].late
    /\ scopes[2].sent = 0
    /\ scopes[2].watcher = "waiting"
    /\ cur.tok \notin tokDone
    /\ pc = "classify"
    /\ raw.err = "EINTR"

\* C16: a watcher sends at most one signal, and only once its context is done
\* (a context never becomes pending again); having sent, it has exited.  The
\* send itself is one threadKill to the thread id the scope sampled.
C16_WatcherSendsAtMostOnce ==
    /\ [](\A i \in 1..Len(scopes) :
            /\ scopes[i].sent \in {0, 1}
            /\ scopes[i].sent = 1 => /\ scopes[i].tok \in tokDone
                                      /\ scopes[i].watcher = "exited"
            /\ scopes[i].tok \notin tokDone => scopes[i].sent = 0)
    /\ [][\A i \in 1..Len(scopes) :
            scopes'[i].sent # scopes[i].sent
            => (/\ scopes[i].sent = 0
                /\ scopes[i].watcher = "waiting"
                /\ scopes[i].tok \in tokDone
                /\ sigPending' = sigPending \cup {scopes[i].tid})]_vars

\* Both watchers are gone: one sent its signal, the other, whose context is
\* still pending, took the completion message and sent nothing.
C16_Witness ==
    /\ Len(scopes) = 2
    /\ Exited(1) /\ Exited(2)
    /\ \E i, j \in 1..2 :
          /\ scopes[i].sent = 1 /\ scopes[i].tok \in tokDone
          /\ scopes[j].sent = 0 /\ scopes[j].tok \notin tokDone

\* C17: from interrupt()'s return until cleanup() unlocks the thread, the
\* caller runs on the thread whose id the scope sampled, so a signal the
\* scope's watcher sends in that span goes to the thread the guarded call
\* runs on.
Guarded == pc \in {"issue", "insys", "classify", "cleanup"}

C17_CallerStaysOnSampledThread ==
    /\ [](Guarded => scopes[Len(scopes)].tid = thr)
    /\ [][(Guarded /\ scopes'[Len(scopes)].sent > scopes[Len(scopes)].sent)
           => (thr \in sigPending' /\ thr' = thr)]_vars

\* The goroutine has moved to another thread between two operations; the
\* second scope sampled the new thread and its watcher's signal is pending
\* there while the guarded call sleeps.
C17_Witness ==
    /\ Len(scopes) = 2
    /\ scopes[1].tid # scopes[2].tid
    /\ Sleeping
    /\ scopes[2].sent = 1
    /\ thr \in sigPending

\* C18: whatever Write returns, its count is between 0 and len(p) and is the
\* sum of what the raw writes of the call reported; a nil error comes only
\* with the whole buffer written.
C18_WriteCountIsSumOfRawWrites ==
    ret.kind = "Write" =>
        /\ 0 <= ret.n /\ ret.n <= ret.len
        /\ ret.n = ret.acc
        /\ ret.err = "nil" => ret.n = ret.len

\* A Write that went round its loop has written its whole buffer: nil error.
C18_Witness ==
    /\ pc = "send"
    /\ cur.kind = "Write"
    /\ cur.again
    /\ cur.res.err = "nil"
    /\ cur.res.n = cur.len
    /\ cur.acc = cur.len

\* C19: when the raw write reported no error and the context is found done
\* at the check that follows it, Write returns the cancellation error with
\* the count so far, also when that raw write took the last bytes.
C19_WriteCancelledAfterFullWrite ==
    /\ [][(/\ pc = "classify"
            /\ cur.kind = "Write"
            /\ raw.err = "nil"
            /\ cur.tok \in tokDone
            /\ pc' # "classify")
           => (/\ pc' = "cleanup"
               /\ cur'.res.err = "Canceled"
               /\ cur'.res.errOp = "write"
               /\ cur'.res.n = cur.n + raw.n)]_vars
    /\ []((ret.kind = "Write" /\ ret.err = "nil") => ~ret.tokWasDone)

\* Every byte was written and Write still reports cancellation.
C19_Witness ==
    /\ ret.kind = "Write"
    /\ ret.len > 0
    /\ ret.n = ret.len
    /\ ret.err = "Canceled"
    /\ ret.tokWasDone

\* C20: with the unbuffered done channel, whenever cleanup() is at its send
\* the watcher is at its select to take it, so cleanup returns.
C20_UnbufferedCleanupReturns ==
    (env.cap = DoneCapUnbuffered /\ pc = "send")
        => scopes[Len(scopes)].watcher = "waiting"

====
